---- MODULE Spec2Model ----
(***************************************************************************)
(* Model of the orbutils file manager (src/file_manager/main.rs): the      *)
(* directory listing, the file-type classifier, the sort engine, the       *)
(* column/window layout and the command loop of FileManager::main.         *)
(*                                                                         *)
(* Rust Strings are modelled as sequences of UTF-8 bytes (naturals), so    *)
(* that len(), slicing, ends_with and the byte-wise Ord of String are the  *)
(* operations the code performs.                                           *)
(***************************************************************************)
EXTENDS Integers, Sequences, FiniteSets, TLC

----------------------------------------------------------------------------
(* Bounds of the model *)

\* longest arbitrary directory listing returned by read_dir
MaxEntries == 1
\* largest "long" directory (n one-letter files) returned by read_dir
MaxBig == 12
\* most commands one window.step() puts in the channel
MaxQueue == 1
\* deepest directory of the file system
MaxDepth == 2

----------------------------------------------------------------------------
(* Program constants *)

ICON_SIZE == 32
\* height of the header row
HEADER_H == 32
\* pixels taken off the list to indicate scrolling
SCROLL_INSET == 16
\* rows shown without scrolling
MAX_ROWS == 7
\* pixels per byte of text and padding of a column
CHAR_W == 8
COL_PAD == 16
\* gap between the icon and column 0
ICON_GAP == 8

----------------------------------------------------------------------------
(* String literals of the program, as UTF-8 bytes *)

SLASH == 47
DOT == 46
S_parent == <<46, 46, 47>>                       \* "../"
S_root == <<47>>                                 \* "/"
S_fileroot == <<102, 105, 108, 101, 58, 47>>     \* "file:/"
S_folder == <<102, 111, 108, 100, 101, 114>>     \* "folder"
S_octet == <<97, 112, 112, 108, 105, 99, 97, 116, 105, 111, 110, 47, 111, 99, 116, 101, 116, 45, 115, 116, 114, 101, 97, 109>>
S_text == <<116, 101, 120, 116, 47, 112, 108, 97, 105, 110>>   \* "text/plain"
S_png == <<105, 109, 97, 103, 101, 47, 112, 110, 103>>        \* "image/png"
S_GB == <<32, 71, 66>>
S_MB == <<32, 77, 66>>
S_KB == <<32, 75, 66>>
S_bytes == <<32, 98, 121, 116, 101, 115>>
S_1entry == <<49, 32, 101, 110, 116, 114, 121>>               \* "1 entry"
S_entries == <<32, 101, 110, 116, 114, 105, 101, 115>>        \* " entries"
S_failed == <<70, 97, 105, 108, 101, 100, 32, 116, 111, 32, 111, 112, 101, 110, 58, 32>>
S_eacces == <<80, 101, 114, 109, 105, 115, 115, 105, 111, 110, 32, 100, 101, 110, 105, 101, 100, 32, 40, 111, 115, 32, 101, 114, 114, 111, 114, 32, 49, 51, 41>>
S_Name == <<78, 97, 109, 101>>
S_Size == <<83, 105, 122, 101>>
S_Type == <<84, 121, 112, 101>>

\* extensions of the allow-list of from_filename
X_c == <<99>>
X_cpp == <<99, 112, 112>>
X_h == <<104>>
X_asm == <<97, 115, 109>>
X_ion == <<105, 111, 110>>
X_lua == <<108, 117, 97>>
X_rc == <<114, 99>>
X_rs == <<114, 115>>
X_sh == <<115, 104>>
X_ttf == <<116, 116, 102>>
X_tar == <<116, 97, 114>>
\* extensions the MIME table of the model knows
X_png == <<112, 110, 103>>
X_txt == <<116, 120, 116>>

----------------------------------------------------------------------------
(* String operations *)

Min2(a, b) == IF a <= b THEN a ELSE b
Max2(a, b) == IF a >= b THEN a ELSE b

\* str::ends_with('/')
EndsWithSlash(s) == Len(s) > 0 /\ s[Len(s)] = SLASH

\* str::rfind('.'): byte index (0-based) of the last '.', or -1 for None
RFindDot(s) ==
    LET hits == {i \in 1..Len(s) : s[i] = DOT}
    IN  IF hits = {} THEN -1
        ELSE (CHOOSE i \in hits : \A j \in hits : j <= i) - 1

\* str::is_char_boundary(pos), pos a 0-based byte index: the start, the end,
\* or a byte that is not a UTF-8 continuation byte (0x80..0xBF)
IsCharBoundary(s, pos) ==
    \/ pos = 0
    \/ pos = Len(s)
    \/ pos < Len(s) /\ ~(s[pos + 1] >= 128 /\ s[pos + 1] <= 191)

\* number of characters (Unicode scalar values) of a UTF-8 string
CharCount(s) == Cardinality({i \in 1..Len(s) : ~(s[i] >= 128 /\ s[i] <= 191)})

\* &s[pos..]
SliceFrom(s, pos) == SubSeq(s, pos + 1, Len(s))

\* Ord for String / str: byte-wise lexicographic; -1 Less, 0 Equal, 1 Greater
CmpInt(a, b) == IF a < b THEN -1 ELSE IF a > b THEN 1 ELSE 0

CmpStr(a, b) ==
    LET n == Min2(Len(a), Len(b))
        diffs == {i \in 1..n : a[i] # b[i]}
    IN  IF diffs = {} THEN CmpInt(Len(a), Len(b))
        ELSE LET i == CHOOSE k \in diffs : \A j \in diffs : k <= j
             IN  CmpInt(a[i], b[i])

\* str::to_lowercase on the ASCII range (descriptions are ASCII)
ToLowercase(s) == [i \in 1..Len(s) |-> IF s[i] >= 65 /\ s[i] <= 90 THEN s[i] + 32 ELSE s[i]]

\* format!("{}", n) for an unsigned integer
RECURSIVE Digits(_)
Digits(n) == IF n < 10 THEN <<48 + n>> ELSE Digits(n \div 10) \o <<48 + (n % 10)>>

\* bool::cmp: false < true
CmpBool(a, b) == CmpInt(IF a THEN 1 ELSE 0, IF b THEN 1 ELSE 0)

----------------------------------------------------------------------------
(* FileType: the classifier *)

\* icons present under UI_PATH/{mimetypes,places}
InstalledIcons ==
    {"inode-directory", "image-x-generic", "text-plain", "audio-x-generic",
     "text-x-c", "text-x-script", "application-x-font-ttf", "package-x-generic",
     "unknown"}

\* FileType::new: the first folder holding <icon>.png wins, else unknown.png
FileType_new(desc, icon) ==
    [panic |-> FALSE, description |-> desc,
     icon |-> IF icon \in InstalledIcons THEN icon ELSE "unknown"]

\* mime_guess::get_mime_type(ext): the table of the external crate, reduced
\* to the extensions the model uses; an extension the table does not know is
\* application/octet-stream
get_mime_type(ext) ==
    IF ext = X_png THEN [top |-> "Image", text |-> S_png]
    ELSE IF ext = X_txt THEN [top |-> "Text", text |-> S_text]
    ELSE [top |-> "Application", text |-> S_octet]

\* the icon chosen for a MIME type and an extension (the match on the MIME
\* top level, then on the extension)
IconOf(mime, ext) ==
    IF mime.top = "Image" THEN "image-x-generic"
    ELSE IF mime.top = "Text" THEN "text-plain"
    ELSE IF mime.top = "Audio" THEN "audio-x-generic"
    ELSE IF ext \in {X_c, X_cpp, X_h} THEN "text-x-c"
    ELSE IF ext \in {X_asm, X_ion, X_lua, X_rc, X_rs, X_sh} THEN "text-x-script"
    ELSE IF ext = X_ttf THEN "application-x-font-ttf"
    ELSE IF ext = X_tar THEN "package-x-generic"
    ELSE "unknown"

\* the file type of an extension: description from the MIME type, icon as above
TypeOfMime(mime, ext) == FileType_new(mime.text, IconOf(mime, ext))
TypeOfExt(ext) == TypeOfMime(get_mime_type(ext), ext)

\* rfind('.').unwrap_or(0) + 1: the byte position from_filename slices the
\* name at, r the result of rfind (-1 for None)
UnwrapPos(r) == (IF r = -1 THEN 0 ELSE r) + 1
ExtPos(file_name) == UnwrapPos(RFindDot(file_name))

\* &file_name[pos..] and its classification; the slice panics when pos is
\* beyond the end of the string or not on a character boundary
SliceAndClassify(file_name, pos) ==
    IF pos > Len(file_name) \/ ~IsCharBoundary(file_name, pos)
    THEN [panic |-> TRUE, description |-> <<>>, icon |-> "unknown"]
    ELSE TypeOfExt(SliceFrom(file_name, pos))

\* FileType::from_filename
from_filename(file_name) ==
    IF EndsWithSlash(file_name)
    THEN FileType_new(S_folder, "inode-directory")
    ELSE SliceAndClassify(file_name, ExtPos(file_name))

\* FileTypesInfo::description_for
description_for(file_name) == from_filename(file_name).description

\* FileTypesInfo::icon_for (the image cache is keyed by the icon and does not
\* change which icon is shown)
icon_for(file_name) == from_filename(file_name).icon

----------------------------------------------------------------------------
(* FileInfo *)

\* the size display of a file of `size` bytes.  The operand of the format is
\* an integer (u64 / u64), for which the precision of {:.1} is ignored.
SizeStr(size) ==
    IF size >= 1000000000 THEN Digits(size \div 1000000000) \o S_GB
    ELSE IF size >= 1000000 THEN Digits(size \div 1000000) \o S_MB
    ELSE IF size >= 1000 THEN Digits(size \div 1000) \o S_KB
    ELSE Digits(size) \o S_bytes

\* FileManager::get_num_entries, count the result of read_dir(path).count()
\* (0 when the directory cannot be read)
get_num_entries(count) ==
    IF count = 1 THEN [size |-> count, size_str |-> S_1entry]
    ELSE [size |-> count, size_str |-> Digits(count) \o S_entries]

\* FileInfo::new.  fs is what the file system answers for full_path:
\* fs.nchild the number of entries of the directory, fs.meta_ok whether
\* fs::metadata succeeds, fs.len the byte length of the file.
SizeOf(is_dir, fs) ==
    IF is_dir THEN get_num_entries(fs.nchild)
    ELSE IF fs.meta_ok THEN [size |-> fs.len, size_str |-> SizeStr(fs.len)]
    ELSE [size |-> 0, size_str |-> S_failed \o S_eacces]

MakeFileInfo(name, full_path, is_dir, sz) ==
    [name |-> name, full_path |-> full_path, size |-> sz.size,
     size_str |-> sz.size_str, is_dir |-> is_dir]

FileInfo_new(name, full_path, is_dir, fs) ==
    MakeFileInfo(name, full_path, is_dir, SizeOf(is_dir, fs))

----------------------------------------------------------------------------
(* Paths *)

\* the components of a path, split at '/'
SplitStep(b, rest) ==
    IF b = SLASH THEN << <<>> >> \o rest
    ELSE << <<b>> \o Head(rest) >> \o Tail(rest)

RECURSIVE Split(_)
Split(s) == IF s = <<>> THEN << <<>> >> ELSE SplitStep(Head(s), Split(Tail(s)))

\* resolve "." and ".." and empty components of an absolute path
WalkStep(c, stack) ==
    IF c = <<>> \/ c = <<DOT>> THEN stack
    ELSE IF c = <<DOT, DOT>>
         THEN (IF stack = <<>> THEN stack ELSE SubSeq(stack, 1, Len(stack) - 1))
         ELSE Append(stack, c)

RECURSIVE Walk(_, _)
Walk(comps, stack) ==
    IF comps = <<>> THEN stack ELSE Walk(Tail(comps), WalkStep(Head(comps), stack))

RECURSIVE Join(_)
Join(stack) == IF stack = <<>> THEN <<>> ELSE <<SLASH>> \o Head(stack) \o Join(Tail(stack))

\* fs::canonicalize of a path: Err when the path does not resolve, else the
\* absolute path without "." and ".." and without a trailing separator
\* (the file system of the model has no symbolic links)
Resolved(st) == [ok |-> TRUE, path |-> IF st = <<>> THEN S_root ELSE Join(st)]

canonicalize(s, exists) ==
    IF ~exists \/ s = <<>> \/ Head(s) # SLASH THEN [ok |-> FALSE, path |-> <<>>]
    ELSE Resolved(Walk(Split(s), <<>>))

\* number of components of an absolute directory path
Depth(path) == Len(Walk(Split(path), <<>>))

\* FileManager::get_parent_directory: None is [some |-> FALSE]
WithSlash(p) == IF EndsWithSlash(p) THEN p ELSE Append(p, SLASH)

\* ParentUnlessSelf without the comparison with the path
ParentAlways(parent, path) == [some |-> TRUE, path |-> parent]

ParentUnlessSelf(parent, path) ==
    IF parent = path THEN [some |-> FALSE, path |-> <<>>]
    ELSE [some |-> TRUE, path |-> parent]

ParentOfResult(c, path) ==
    IF c.ok THEN ParentUnlessSelf(WithSlash(c.path), path)
    ELSE [some |-> FALSE, path |-> <<>>]

get_parent_directory(path, exists) ==
    ParentOfResult(canonicalize(path \o S_parent, exists), path)

----------------------------------------------------------------------------
(* Sort engine *)

\* cmp_size with the operands of the is_dir comparison exchanged
cmp_size_files_first(a, b) ==
    IF a.is_dir # b.is_dir THEN CmpBool(a.is_dir, b.is_dir)
    ELSE CmpInt(a.size, b.size)

\* the comparator of the Size predicate: directories first, else by size
cmp_size(a, b) ==
    IF a.is_dir # b.is_dir THEN CmpBool(b.is_dir, a.is_dir)
    ELSE CmpInt(a.size, b.size)

\* the key of the Type predicate
type_key(file) == ToLowercase(description_for(file.name))

\* the comparator sort_files uses for a predicate
cmp_files(predicate, a, b) ==
    CASE predicate = "Name" -> CmpStr(a.name, b.name)
      [] predicate = "Size" -> cmp_size(a, b)
      [] predicate = "Type" -> CmpStr(type_key(a), type_key(b))

InsertAt(front, x, k) == SubSeq(front, 1, k) \o <<x>> \o SubSeq(front, k + 1, Len(front))

\* x goes behind every element of the sorted front that is not greater
InsertSorted(front, x, predicate) ==
    InsertAt(front, x,
             Cardinality({i \in 1..Len(front) : cmp_files(predicate, front[i], x) <= 0}))

\* slice::sort_by / sort_by_key: a stable sort, equal elements keep their order
RECURSIVE sort_by(_, _)
sort_by(s, predicate) ==
    IF Len(s) <= 1 THEN s
    ELSE InsertSorted(sort_by(SubSeq(s, 1, Len(s) - 1), predicate), s[Len(s)], predicate)

\* Vec::reverse
Reverse(s) == [i \in 1..Len(s) |-> s[Len(s) + 1 - i]]

\* Directed with the reversal under either direction
DirectedAlways(sorted, direction) == Reverse(sorted)

\* the reversal of sort_files under Desc
Directed(sorted, direction) == IF direction = "Desc" THEN Reverse(sorted) ELSE sorted

\* FileManager::sort_files
sort_files(fs, predicate, direction) == Directed(sort_by(fs, predicate), direction)

\* SortDirection::invert
invert(direction) == IF direction = "Asc" THEN "Desc" ELSE "Asc"

\* the predicate of a column index (the match of the ChangeSort branch)
PredicateOf(i) == CASE i = 0 -> "Name" [] i = 1 -> "Size" [] i = 2 -> "Type"

----------------------------------------------------------------------------
(* Layout and listing *)

\* the columns of FileManager::new
NewColumns ==
    << [name |-> S_Name, x |-> 0, width |-> 0, sort_predicate |-> "Name"],
       [name |-> S_Size, x |-> 0, width |-> 0, sort_predicate |-> "Size"],
       [name |-> S_Type, x |-> 0, width |-> 0, sort_predicate |-> "Type"] >>

\* the width of a text of `len` bytes: (len * 8) as i32 + 16
TextWidth(len) == len * CHAR_W + COL_PAD

\* the reset of the column widths at the start of set_path
ResetWidths(cols) == [i \in 1..3 |-> [cols[i] EXCEPT !.width = TextWidth(Len(cols[i].name))]]

\* the running maxima and the push of push_file, ft the file type of the name
PushClassified(acc, file_info, ft) ==
    IF acc.panic \/ ft.panic THEN [acc EXCEPT !.panic = TRUE]
    ELSE [panic |-> FALSE,
          files |-> Append(acc.files, file_info),
          columns |-> [acc.columns EXCEPT
              ![1].width = Max2(@, TextWidth(Len(file_info.name))),
              ![2].width = Max2(@, TextWidth(Len(file_info.size_str))),
              ![3].width = Max2(@, TextWidth(Len(ft.description)))]]

\* FileManager::push_file on acc = [panic, files, columns]; description_for
\* runs first and its panic ends the program
push_file(acc, file_info) == PushClassified(acc, file_info, from_filename(file_info.name))

\* the name set_path gives an entry e = [ok, ftype, name_ok, name, meta_ok,
\* len, nchild] of read_dir: "" when the name is not UTF-8
EntryPath(e) ==
    IF e.name_ok THEN (IF e.ftype = "dir" THEN Append(e.name, SLASH) ELSE e.name)
    ELSE <<>>

PushNamed(acc, path, e, entry_path) ==
    push_file(acc, FileInfo_new(entry_path, path \o entry_path, e.ftype = "dir", e))

\* the body of the loop over read_dir(path) in set_path, for one entry result
PushEntry(acc, path, e) == IF ~e.ok THEN acc ELSE PushNamed(acc, path, e, EntryPath(e))

RECURSIVE PushAll(_, _, _)
PushAll(acc, path, entries) ==
    IF entries = <<>> THEN acc
    ELSE PushAll(PushEntry(acc, path, Head(entries)), path, Tail(entries))

\* the "../" entry, pushed when the path has a parent
PushParent(acc, parent, env) ==
    IF parent.some
    THEN push_file(acc, FileInfo_new(S_parent, parent.path, TRUE, [nchild |-> env.pcount]))
    ELSE acc

\* the match on read_dir(path)
ReadEntries(acc, path, env) == IF env.rd_ok THEN PushAll(acc, path, env.entries) ELSE acc

\* WindowHeight with the eighth entry still counted as a full row
WindowHeightThrough8(n) ==
    IF n <= 8 THEN Min2(n, MAX_ROWS) * ICON_SIZE + HEADER_H
    ELSE MAX_ROWS * ICON_SIZE + HEADER_H - SCROLL_INSET

\* the height h set_path gives the window for n entries (header included)
WindowHeight(n) ==
    IF n < 8 THEN Min2(n, MAX_ROWS) * ICON_SIZE + HEADER_H
    ELSE MAX_ROWS * ICON_SIZE + HEADER_H - SCROLL_INSET

\* FileManager::update_headers: the header label and the sort arrow of each column
update_headers(cols, predicate, direction) ==
    [i \in 1..3 |->
        [x |-> cols[i].x, width |-> cols[i].width, text |-> cols[i].name,
         arrow |-> IF cols[i].sort_predicate = predicate
                   THEN (IF direction = "Asc" THEN "down" ELSE "up")
                   ELSE ""]]

\* the row update_list builds for a file
RowOf(file, ft) ==
    [path |-> file.full_path, icon |-> ft.icon, name |-> file.name,
     size_str |-> file.size_str, description |-> ft.description]

\* the height h update_list computes for n entries (header included)
ListWindowHeight(n) ==
    IF n < 8 THEN Min2(n, MAX_ROWS) * ICON_SIZE + HEADER_H
    ELSE MAX_ROWS * ICON_SIZE + HEADER_H - SCROLL_INSET

\* the height of the list widget: h - 32
ListHeight(n) == ListWindowHeight(n) - HEADER_H

\* FileManager::update_list: the list widget, one row per file
update_list(fs, cols) ==
    [present |-> TRUE,
     w |-> cols[3].x + cols[3].width,
     h |-> ListHeight(Len(fs)),
     rows |-> [i \in 1..Len(fs) |-> RowOf(fs[i], from_filename(fs[i].name))]]

\* the column offsets set_path assigns after the listing
PlaceColumns(cols) ==
    [cols EXCEPT ![1].x = ICON_SIZE + ICON_GAP,
                 ![2].x = ICON_SIZE + ICON_GAP + cols[1].width,
                 ![3].x = ICON_SIZE + ICON_GAP + cols[1].width + cols[2].width]

\* SortStateOfSetPath with the direction back at Asc on every load
SortStateResetByLoad(predicate, direction) == [predicate |-> predicate, direction |-> "Asc"]

\* the sort state set_path sorts and draws under: the one it was called with
SortStateOfSetPath(predicate, direction) == [predicate |-> predicate, direction |-> direction]

\* the entries of a list with the number of times each occurs
BagOfSeq(s) ==
    [x \in {s[i] : i \in DOMAIN s} |-> Cardinality({i \in DOMAIN s : s[i] = x})]

\* the tail of set_path: window size and title, headers and list; pushed is
\* the list push_file built, in the order of the load
Draw(panicked, sorted, placed, st, path, n, pushed) ==
    [panic |-> panicked,
     files |-> sorted,
     loaded |-> BagOfSeq(pushed),
     columns |-> placed,
     sort_predicate |-> st.predicate,
     sort_direction |-> st.direction,
     window |-> [w |-> placed[3].x + placed[3].width, h |-> WindowHeight(n), title |-> path],
     headers |-> update_headers(placed, st.predicate, st.direction),
     list |-> update_list(sorted, placed)]

\* set_path after the listing: offsets, size, sort_files, headers, list
Present(acc, st, path) ==
    Draw(acc.panic, sort_files(acc.files, st.predicate, st.direction),
         PlaceColumns(acc.columns), st, path, Len(acc.files), acc.files)

\* set_path up to the end of the listing: widths reset, files cleared, the
\* parent entry, the entries of read_dir
ReadListing(cols, path, env) ==
    ReadEntries(PushParent([panic |-> FALSE, files |-> <<>>, columns |-> ResetWidths(cols)],
                           get_parent_directory(path, env.exists), env),
                path, env)

\* FileManager::set_path.  env is what the file system answers: env.exists
\* (the path resolves), env.pcount (entries of the parent), env.rd_ok and
\* env.entries (the result of read_dir).
set_path(cols, predicate, direction, path, env) ==
    Present(ReadListing(cols, path, env), SortStateOfSetPath(predicate, direction), path)

----------------------------------------------------------------------------
(* The file system the program runs against *)

N_d == <<100>>                       \* "d"
N_xc == <<120, 99>>                  \* "xc"
N_ecpp == <<195, 169, 46, 99, 112, 112>>  \* e-acute (two bytes), then ".cpp"
N_mpng == <<109, 46, 112, 110, 103>> \* "m.png"

\* what read_dir can yield for one entry: an Err, or an entry with its
\* file_type() (dir, file, or err), its file_name() (to_str() is None when
\* name_ok is FALSE) and what FileInfo::new will read for it
DirEntry(ftype, name_ok, name, meta_ok, len, nchild) ==
    [ok |-> TRUE, ftype |-> ftype, name_ok |-> name_ok, name |-> name,
     meta_ok |-> meta_ok, len |-> len, nchild |-> nchild]

E_err == [ok |-> FALSE, ftype |-> "err", name_ok |-> FALSE, name |-> <<>>,
          meta_ok |-> FALSE, len |-> 0, nchild |-> 0]
E_dir == DirEntry("dir", TRUE, N_d, TRUE, 0, 2)
E_xc == DirEntry("file", TRUE, N_xc, TRUE, 1500000, 0)
E_ecpp == DirEntry("file", TRUE, N_ecpp, TRUE, 2000000000, 0)
E_mpng == DirEntry("file", TRUE, N_mpng, FALSE, 0, 0)
E_noname == DirEntry("err", FALSE, <<>>, TRUE, 0, 0)

\* the entries a directory at `path` can hold: no directory below MaxDepth
Pool(path) ==
    {E_err, E_xc, E_ecpp, E_mpng, E_noname} \cup (IF Depth(path) < MaxDepth THEN {E_dir} ELSE {})

\* the short listings: up to MaxEntries distinct entries, in any order
SmallListings(path) ==
    {l \in UNION {[1..n -> Pool(path)] : n \in 0..MaxEntries} :
        \A i, j \in DOMAIN l : i # j => l[i] # l[j]}

\* a long directory: n files named by one letter, with sizes that repeat;
\* the model reads the long directories of MaxEntries + 2 to MaxBig files
BigSizes == <<999, 1000, 1000000>>
BigDir(n) == [i \in 1..n |-> DirEntry("file", TRUE, <<96 + i>>, TRUE, BigSizes[(i % 3) + 1], 0)]

Listings(path) == SmallListings(path) \cup {BigDir(n) : n \in (MaxEntries + 2)..MaxBig}

\* read_dir(parent).count() of the parent directory
NumEntriesOfParent == {1}

IsAbsolute(path) == path # <<>> /\ Head(path) = SLASH

\* what the file system can answer to one set_path(path): the path is gone,
\* the path resolves but cannot be read, or it is read
EnvFor(path) ==
    {[exists |-> FALSE, pcount |-> 0, rd_ok |-> FALSE, entries |-> <<>>]}
    \cup (IF IsAbsolute(path)
          THEN {[exists |-> TRUE, pcount |-> c, rd_ok |-> FALSE, entries |-> <<>>] :
                    c \in NumEntriesOfParent}
               \cup {[exists |-> TRUE, pcount |-> c, rd_ok |-> TRUE, entries |-> l] :
                    c \in NumEntriesOfParent, l \in Listings(path)}
          ELSE {})

\* the arguments main is started with
StartArgs == {S_root, <<SLASH>> \o N_d}

----------------------------------------------------------------------------
(* State *)

VARIABLES
    pc,              \* "start", "step" (in window.step()), "drain" (in the
                     \* try_recv loop), "exited", "panicked"
    running,         \* window.running
    files,           \* FileManager.files
    columns,         \* FileManager.columns
    sort_predicate,  \* FileManager.sort_predicate
    sort_direction,  \* FileManager.sort_direction
    window,          \* size and title of the window
    headers,         \* the column labels and sort arrows
    list,            \* the list widget
    rx,              \* the commands in the channel
    panic,           \* "none", or where the program panicked: "spawn", "slice"
    fsview,          \* what the file system answered to the last set_path
    loaded           \* the entries the last set_path pushed, as a bag

vars == <<pc, running, files, columns, sort_predicate, sort_direction, window,
          headers, list, rx, panic, fsview, loaded>>

\* the summary of env kept in fsview
ViewOf(path, env) ==
    [path |-> path, exists |-> env.exists, rd_ok |-> env.rd_ok,
     n_ok |-> Cardinality({i \in DOMAIN env.entries : env.entries[i].ok}),
     unreadable_name |-> \E i \in DOMAIN env.entries :
                            env.entries[i].ok /\ ~env.entries[i].name_ok]

Init ==
    /\ pc = "start"
    /\ running = TRUE
    /\ files = <<>>
    /\ columns = NewColumns
    /\ sort_predicate = "Name"
    /\ sort_direction = "Asc"
    /\ window = [w |-> 0, h |-> 0, title |-> <<>>]
    /\ headers = <<>>
    /\ list = [present |-> FALSE, w |-> 0, h |-> 0, rows |-> <<>>]
    /\ rx = <<>>
    /\ panic = "none"
    /\ fsview = [path |-> <<>>, exists |-> FALSE, rd_ok |-> FALSE, n_ok |-> 0,
                 unreadable_name |-> FALSE]
    /\ loaded = BagOfSeq(<<>>)

\* the state after set_path returned r, or after it panicked
AssignSetPath(r, next) ==
    IF r.panic
    THEN /\ pc' = "panicked"
         /\ panic' = "slice"
         /\ UNCHANGED <<files, columns, sort_predicate, sort_direction,
                        window, headers, list, loaded>>
    ELSE /\ pc' = next
         /\ panic' = panic
         /\ files' = r.files
         /\ columns' = r.columns
         /\ sort_predicate' = r.sort_predicate
         /\ sort_direction' = r.sort_direction
         /\ window' = r.window
         /\ headers' = r.headers
         /\ list' = r.list
         /\ loaded' = r.loaded

\* one call of set_path(path), then control goes to `next`
DoSetPath(path, env, next) ==
    /\ fsview' = ViewOf(path, env)
    /\ AssignSetPath(set_path(columns, sort_predicate, sort_direction, path, env), next)

\* the path main lists first: the canonical argument, or "file:/", with a
\* trailing separator
StartPath(c) == WithSlash(IF c.ok THEN c.path ELSE S_fileroot)

MainAt(path) == \E env \in EnvFor(path) : DoSetPath(path, env, "step")

\* FileManager::main up to the loop
Main(arg, exists) ==
    /\ pc = "start"
    /\ MainAt(StartPath(canonicalize(arg, exists)))
    /\ UNCHANGED <<running, rx>>

\* the command a click on a row of the list sends
EntryCommand(row) ==
    [type |-> IF EndsWithSlash(row.path) THEN "ChangeDir" ELSE "Execute",
     path |-> row.path, i |-> 0]

\* the command a click on header label i sends
HeaderCommand(i) == [type |-> "ChangeSort", path |-> <<>>, i |-> i]

\* rows of the list the model clicks on
MaxClickRow == MaxEntries + 1

ClickCommands ==
    {EntryCommand(list.rows[i]) : i \in 1..Min2(Len(list.rows), MaxClickRow)}
    \cup {HeaderCommand(i) : i \in 0..2}

\* window.step(): the callbacks of the click events of this step send their
\* commands
WindowStep(batch) ==
    /\ pc = "step"
    /\ rx' = rx \o batch
    /\ pc' = "drain"
    /\ UNCHANGED <<running, files, columns, sort_predicate, sort_direction, window,
                   headers, list, panic, fsview, loaded>>

\* window.step() on the close event: window.running is cleared
WindowClose ==
    /\ pc = "step"
    /\ running' = FALSE
    /\ pc' = "drain"
    /\ UNCHANGED <<files, columns, sort_predicate, sort_direction, window,
                   headers, list, rx, panic, fsview, loaded>>

\* the ChangeDir branch
RecvChangeDir ==
    /\ pc = "drain" /\ rx # <<>> /\ Head(rx).type = "ChangeDir"
    /\ rx' = Tail(rx)
    /\ \E env \in EnvFor(Head(rx).path) : DoSetPath(Head(rx).path, env, "drain")
    /\ UNCHANGED running

\* the Execute branch: Command::spawn() succeeds or fails, and unwrap()
\* panics on the failure
RecvExecute(spawn_ok) ==
    /\ pc = "drain" /\ rx # <<>> /\ Head(rx).type = "Execute"
    /\ rx' = Tail(rx)
    /\ pc' = IF spawn_ok THEN "drain" ELSE "panicked"
    /\ panic' = IF spawn_ok THEN panic ELSE "spawn"
    /\ UNCHANGED <<running, files, columns, sort_predicate, sort_direction,
                   window, headers, list, fsview, loaded>>

\* the sort state after ChangeSort(i)
change_sort(predicate, direction, i) ==
    IF predicate # PredicateOf(i)
    THEN [predicate |-> PredicateOf(i), direction |-> direction]
    ELSE [predicate |-> predicate, direction |-> invert(direction)]

\* update_headers, sort_files and update_list of the ChangeSort branch
ShowSorted(st, sorted) ==
    /\ sort_predicate' = st.predicate
    /\ sort_direction' = st.direction
    /\ headers' = update_headers(columns, st.predicate, st.direction)
    /\ files' = sorted
    /\ list' = update_list(sorted, columns)

Resort(st) == ShowSorted(st, sort_files(files, st.predicate, st.direction))

\* the ChangeSort branch
RecvChangeSort ==
    /\ pc = "drain" /\ rx # <<>> /\ Head(rx).type = "ChangeSort"
    /\ Head(rx).i \in 0..2
    /\ rx' = Tail(rx)
    /\ Resort(change_sort(sort_predicate, sort_direction, Head(rx).i))
    /\ UNCHANGED <<pc, running, columns, window, panic, fsview, loaded>>

\* the channel is empty: draw, and leave the loop when the window was closed
DrainDone ==
    /\ pc = "drain" /\ rx = <<>>
    /\ pc' = IF running THEN "step" ELSE "exited"
    /\ UNCHANGED <<running, files, columns, sort_predicate, sort_direction,
                   window, headers, list, rx, panic, fsview, loaded>>

Batches == UNION {[1..n -> ClickCommands] : n \in 0..MaxQueue}

Next ==
    \/ \E arg \in StartArgs, exists \in BOOLEAN : Main(arg, exists)
    \/ \E batch \in Batches : WindowStep(batch)
    \/ WindowClose
    \/ RecvChangeDir
    \/ \E spawn_ok \in BOOLEAN : RecvExecute(spawn_ok)
    \/ RecvChangeSort
    \/ DrainDone

Spec == Init /\ [][Next]_vars

----------------------------------------------------------------------------
(* Steps of the command loop, for the properties below *)

\* the program is in its main loop (it neither panicked nor has yet to start)
InLoop == pc \in {"step", "drain", "exited"}

\* this step is the ChangeSort branch handling the head of the channel
ChangeSortStep ==
    pc = "drain" /\ rx # <<>> /\ Head(rx).type = "ChangeSort" /\ rx' = Tail(rx)

\* this step is the ChangeDir branch handling the head of the channel
ChangeDirStep ==
    pc = "drain" /\ rx # <<>> /\ Head(rx).type = "ChangeDir" /\ rx' = Tail(rx)

\* the rows of the "../" entry in the listing
ParentRows == {i \in DOMAIN files : files[i].name = S_parent}

\* this step is the first set_path of main
MainStep == pc = "start" /\ pc' # "start"

----------------------------------------------------------------------------
(* C1 *)

\* C1, as claimed: a ChangeSort on the active column flips the direction and
\* keeps the predicate; a ChangeSort on another column makes that column's
\* predicate the active one and resets the direction to Ascending.
C1_ToggleOrReset ==
    [][ChangeSortStep =>
         IF PredicateOf(Head(rx).i) = sort_predicate
         THEN sort_predicate' = sort_predicate /\ sort_direction' # sort_direction
         ELSE sort_predicate' = PredicateOf(Head(rx).i) /\ sort_direction' = "Asc"]_vars

----------------------------------------------------------------------------
(* C2 *)

\* C2, as claimed: a launch that fails to start does not terminate the
\* application: the program is never stopped by the failure of an Execute.
C2_LaunchFailureRecovered == ~(pc = "panicked" /\ panic = "spawn")

----------------------------------------------------------------------------
(* C3 *)

\* every directory precedes every file
DirsFirst(fs) == \A i, j \in DOMAIN fs : (i < j /\ fs[j].is_dir) => fs[i].is_dir

\* within the directories and within the files, sizes do not decrease
SizeOrderedWithin(fs) ==
    \A i, j \in DOMAIN fs : (i < j /\ fs[i].is_dir = fs[j].is_dir) => fs[i].size <= fs[j].size

\* every file precedes every directory
FilesFirst(fs) == \A i, j \in DOMAIN fs : (i < j /\ ~fs[j].is_dir) => ~fs[i].is_dir

C3_Shown ==
    (InLoop /\ sort_predicate = "Size") =>
        IF sort_direction = "Asc"
        THEN DirsFirst(files) /\ SizeOrderedWithin(files)
        ELSE FilesFirst(files) /\ DirsFirst(Reverse(files)) /\ SizeOrderedWithin(Reverse(files))

C3_Sorted ==
    (ChangeSortStep /\ sort_predicate' = "Size") =>
        /\ sort_direction' = "Asc" =>
              /\ files' = sort_files(files, "Size", "Asc")
              /\ DirsFirst(files') /\ SizeOrderedWithin(files')
        /\ sort_direction' = "Desc" => files' = Reverse(sort_files(files, "Size", "Asc"))

\* C3: under the Size predicate and Ascending, every directory precedes every
\* file and sizes do not decrease within the directories and within the files;
\* under Descending the list is exactly the reverse of what Ascending gives for
\* the same list, so every file precedes every directory.
C3_SizeSort == [](C3_Shown) /\ [][C3_Sorted]_vars

\* C3 witness: a Size/Descending listing with a directory behind two files
\* of different size
C3_Witness ==
    /\ InLoop /\ sort_predicate = "Size" /\ sort_direction = "Desc"
    /\ Len(files) >= 3
    /\ ~files[1].is_dir /\ files[Len(files)].is_dir
    /\ \E i, j \in DOMAIN files :
          i < j /\ ~files[i].is_dir /\ ~files[j].is_dir /\ files[i].size > files[j].size

----------------------------------------------------------------------------
(* C4 *)

\* C4, as claimed: when read_dir yields an entry whose name cannot be read,
\* set_path does not abort: the entry is listed under the empty name and the
\* listing is complete (one file per readable entry result, plus "../").
C4_UnreadableNameListed ==
    fsview.unreadable_name =>
        /\ InLoop
        /\ \E i \in DOMAIN files : files[i].name = <<>>
        /\ Len(files) = fsview.n_ok + Cardinality(ParentRows)

----------------------------------------------------------------------------
(* C5 *)

\* the threshold of the largest unit not above s
UnitThreshold(s) ==
    IF s >= 1000000000 THEN 1000000000
    ELSE IF s >= 1000000 THEN 1000000
    ELSE IF s >= 1000 THEN 1000
    ELSE 1

UnitName(s) ==
    IF s >= 1000000000 THEN S_GB
    ELSE IF s >= 1000000 THEN S_MB
    ELSE IF s >= 1000 THEN S_KB
    ELSE S_bytes

\* the first decimal digit of s / t
FirstDecimal(s, t) == IF t = 1 THEN 0 ELSE (s % t) \div (t \div 10)

\* s divided by the threshold of its unit, with one decimal digit, and the unit
OneDecimalSizeStr(s) ==
    Digits(s \div UnitThreshold(s)) \o <<DOT>> \o Digits(FirstDecimal(s, UnitThreshold(s)))
        \o UnitName(s)

\* the size display reports a size, not a failure to read the metadata
ShowsSize(file) ==
    /\ ~file.is_dir
    /\ ~(Len(file.size_str) >= Len(S_failed)
         /\ SubSeq(file.size_str, 1, Len(S_failed)) = S_failed)

\* C5, as claimed: the size display of a file of s bytes is s divided by the
\* threshold of the largest unit not above s, with one decimal digit, and
\* that unit (1,500,000 bytes is shown as "1.5 MB").
C5_OneDecimalDisplay ==
    \A i \in DOMAIN files : ShowsSize(files[i]) => files[i].size_str = OneDecimalSizeStr(files[i].size)

----------------------------------------------------------------------------
(* C6 *)

\* the directory above a non-root directory path "/a/b/": "/a/"
DirAbove(path) ==
    SubSeq(path, 1, CHOOSE k \in 1..(Len(path) - 1) :
                        /\ path[k] = SLASH
                        /\ \A j \in (k + 1)..(Len(path) - 1) : path[j] # SLASH)

\* C6: when the listed path resolves, the listing of the root holds no "../"
\* entry, and the listing of any other directory holds exactly one, flagged as
\* a directory, whose full path is the directory above with a trailing separator.
C6_ParentEntry ==
    (InLoop /\ fsview.exists) =>
        IF fsview.path = S_root
        THEN ParentRows = {}
        ELSE /\ Cardinality(ParentRows) = 1
             /\ \A i \in ParentRows :
                    /\ files[i].is_dir
                    /\ EndsWithSlash(files[i].full_path)
                    /\ files[i].full_path = DirAbove(fsview.path)

\* C6 witness: the listing of "/d/d/", whose "../" leads to "/d/"
C6_Witness ==
    /\ InLoop /\ fsview.exists
    /\ fsview.path = <<SLASH>> \o N_d \o <<SLASH>> \o N_d \o <<SLASH>>
    /\ \E i \in DOMAIN files :
          files[i].name = S_parent /\ files[i].full_path = <<SLASH>> \o N_d \o <<SLASH>>

----------------------------------------------------------------------------
(* C7 *)

\* the substring after the last '.', empty when there is none
AfterLastDot(name) == IF RFindDot(name) = -1 THEN <<>> ELSE SliceFrom(name, RFindDot(name) + 1)

\* C7, as claimed: a name that does not end in the separator is classified by
\* the substring after its last '.', which is empty when it has no '.': a
\* name without '.' gets the icon and description of the empty extension.
C7_ExtensionAfterLastDot ==
    \A i \in DOMAIN list.rows :
        ~EndsWithSlash(list.rows[i].name) =>
            /\ list.rows[i].icon = TypeOfExt(AfterLastDot(list.rows[i].name)).icon
            /\ list.rows[i].description = TypeOfExt(AfterLastDot(list.rows[i].name)).description

----------------------------------------------------------------------------
(* C8 *)

\* fs is in the order of the predicate: not decreasing under Asc, not
\* increasing under Desc
OrderedUnder(fs, predicate, direction) ==
    \A i, j \in DOMAIN fs :
        i < j => IF direction = "Asc"
                 THEN cmp_files(predicate, fs[i], fs[j]) <= 0
                 ELSE cmp_files(predicate, fs[i], fs[j]) >= 0

\* the sort arrow is on the header of the predicate and shows the direction
ArrowsShow(hs, predicate, direction) ==
    /\ DOMAIN hs = 1..3
    /\ \A c \in 1..3 :
          hs[c].arrow = IF NewColumns[c].sort_predicate # predicate THEN ""
                        ELSE IF direction = "Asc" THEN "down" ELSE "up"

\* the step changes the predicate or the direction
SortStateChanges == sort_predicate' # sort_predicate \/ sort_direction' # sort_direction

\* a navigation leaves the sort state alone and shows the directory under it
NavigationKeepsSortState ==
    ChangeDirStep =>
        /\ ~SortStateChanges
        /\ pc' # "panicked" =>
              /\ OrderedUnder(files', sort_predicate, sort_direction)
              /\ ArrowsShow(headers', sort_predicate, sort_direction)

\* C8: the predicate and the direction change in no step but a ChangeSort;
\* every navigation (ChangeDir, set_path) leaves both as they were and shows
\* the new directory ordered and labelled under that same sort state.
C8_SortStateFrame ==
    [][NavigationKeepsSortState /\ (SortStateChanges => ChangeSortStep)]_vars

\* C8 witness: a directory reached by navigation, shown under Size/Descending
C8_Witness ==
    /\ InLoop /\ Depth(fsview.path) = 2 /\ fsview.rd_ok
    /\ sort_predicate = "Size" /\ sort_direction = "Desc"
    /\ Len(files) >= 2 /\ ~files[1].is_dir /\ files[Len(files)].name = S_parent

----------------------------------------------------------------------------
(* C9 *)

\* the text of column c in the row of a file
ColumnText(c, file) ==
    CASE c = 1 -> file.name
      [] c = 2 -> file.size_str
      [] c = 3 -> description_for(file.name)

\* the widths column c has to hold: its label, and its text in every entry
\* by character count
WidthsByChars(c) ==
    {Len(columns[c].name) * 8 + 16}
    \cup {CharCount(ColumnText(c, files[i])) * 8 + 16 : i \in DOMAIN files}

\* C9, as claimed: after every load each column is as wide as the widest of
\* its label (length * 8 + 16) and its text in the entries of the current
\* listing (character count * 8 + 16); column 0 starts at icon_size + 8,
\* each later column at the end of the one before, and the window is as wide
\* as the end of the last column.
C9_ColumnWidths ==
    InLoop =>
        /\ \A c \in 1..3 :
              /\ columns[c].width \in WidthsByChars(c)
              /\ \A w \in WidthsByChars(c) : w <= columns[c].width
        /\ columns[1].x = ICON_SIZE + 8
        /\ columns[2].x = columns[1].x + columns[1].width
        /\ columns[3].x = columns[2].x + columns[2].width
        /\ window.w = columns[3].x + columns[3].width

----------------------------------------------------------------------------
(* C10 *)

\* the content height claimed for n entries, rows of 32 and an inset of 16
ContentHeight(n) == IF n < 8 THEN Min2(n, 7) * 32 ELSE 7 * 32 - 16

\* C10: for the n entries of the listing, the list is min(n,7) * 32 high when
\* n < 8 and 7 * 32 - 16 high when n >= 8, and the window is that height plus
\* the header row of 32: set_path and update_list agree on the height.
C10_Heights ==
    InLoop =>
        /\ list.present
        /\ list.h = ContentHeight(Len(files))
        /\ window.h = list.h + 32

\* C10 witness: a listing of 12 entries, shown 7 * 32 - 16 = 208 high
C10_Witness ==
    /\ InLoop /\ Len(files) = 12 /\ list.h = 208 /\ window.h = 240

----------------------------------------------------------------------------
(* C11 *)

\* the list holds exactly the entries of the last load and is in the order
\* of the sort state
C11_Listed ==
    InLoop =>
        /\ BagOfSeq(files) = loaded
        /\ OrderedUnder(files, sort_predicate, sort_direction)

\* a ChangeSort keeps the entries, reads nothing and keeps the columns
C11_ChangeSortKeeps ==
    ChangeSortStep =>
        /\ BagOfSeq(files') = BagOfSeq(files)
        /\ loaded' = loaded /\ fsview' = fsview
        /\ columns' = columns
        /\ OrderedUnder(files', sort_predicate', sort_direction')

\* C11: after every processed ChangeDir or ChangeSort the list is a
\* permutation of the entries the last load produced, not decreasing in the
\* order of the active predicate under Asc and not increasing under Desc; a
\* ChangeSort adds, drops and re-reads nothing and leaves the columns as
\* they are.
C11_ListingSorted == [](C11_Listed) /\ [][C11_ChangeSortKeeps]_vars

\* C11 witness: a list of three or more entries put in descending order of
\* name by ChangeSort, the first name above the second
C11_Witness ==
    /\ InLoop /\ sort_predicate = "Name" /\ sort_direction = "Desc"
    /\ Len(files) >= 3 /\ BagOfSeq(files) = loaded
    /\ CmpStr(files[1].name, files[2].name) > 0
    /\ Len(list.rows) = Len(files) /\ list.rows[1].name = files[1].name

====
